---------------------------- MODULE Spec2Model ----------------------------
(***************************************************************************)
(* Model of the MIDORI2 loader (src/loader.py): identifier normalisation,  *)
(* lineage parsing, the two file scanners and the inner join.              *)
(*                                                                         *)
(* A Python str is a sequence of one-character strings.  A text file is    *)
(* the sequence of its lines, each without its line terminator.            *)
(***************************************************************************)
EXTENDS Integers, Sequences, FiniteSets, TLC

VARIABLES
    pc,                 \* position of the running function
    arg,                \* str argument of the pure function under check
    normalizar,         \* the normalizar flag
    built,              \* the parts a lineage segment was built from, or <<>>
    ret,                \* sequence of the values returned so far
    archivo_taxon,      \* lines of the .taxon file
    archivo_fasta,      \* lines of the .fasta file
    n,                  \* number of lines of the current file already read
    datos,              \* the list of row dicts being built
    id_actual,          \* <<>> for None, else <<id>>
    secuencia_actual,   \* list of the sequence lines of the current block
    df_taxon,
    df_fasta,
    df_completo,
    error               \* "none", or the name of the exception raised

vars == <<pc, arg, normalizar, built, ret, archivo_taxon, archivo_fasta, n,
          datos, id_actual, secuencia_actual, df_taxon, df_fasta,
          df_completo, error>>

(***************************************************************************)
(* Bounds of the model.                                                    *)
(***************************************************************************)
MaxIdLen == 5
MaxNameLen == 3
MaxLineageLen == 6
MaxLines == 3
MaxJoinLines == 2

(***************************************************************************)
(* Strings.                                                                *)
(***************************************************************************)
AllStrings(alphabet, maxlen) == UNION {[1..k -> alphabet] : k \in 0..maxlen}

Digits == {"0", "1", "2", "3", "4", "5", "6", "7", "8", "9"}

\* the characters str.strip() removes (those of the model's alphabets)
Whitespace == {" ", "\t"}

\* length of the longest run of characters of set S starting at position i
RECURSIVE SpanIn(_, _, _)
SpanIn(s, i, S) ==
    IF i > Len(s) \/ s[i] \notin S THEN 0 ELSE 1 + SpanIn(s, i + 1, S)

\* length of the longest run of characters outside S starting at position i
RECURSIVE SpanNotIn(_, _, _)
SpanNotIn(s, i, S) ==
    IF i > Len(s) \/ s[i] \in S THEN 0 ELSE 1 + SpanNotIn(s, i + 1, S)

\* str.lstrip(chars)
LStrip(s, chars) == SubSeq(s, SpanIn(s, 1, chars) + 1, Len(s))

\* length of the longest run of characters of S ending at position i
RECURSIVE SpanBack(_, _, _)
SpanBack(s, i, S) ==
    IF i < 1 \/ s[i] \notin S THEN 0 ELSE 1 + SpanBack(s, i - 1, S)

\* str.rstrip(chars)
RStrip(s, chars) == SubSeq(s, 1, Len(s) - SpanBack(s, Len(s), chars))

\* str.strip()
Strip(s) == RStrip(LStrip(s, Whitespace), Whitespace)

\* str.split(sep) for a one-character separator: the list of fields
RECURSIVE Split(_, _)
Split(s, sep) ==
    LET k == SpanNotIn(s, 1, {sep})
    IN  IF k = Len(s) THEN <<s>>
        ELSE <<SubSeq(s, 1, k)>> \o Split(SubSeq(s, k + 2, Len(s)), sep)

\* a plausible slip: ' '.join(list)
RECURSIVE JoinWithSpace(_)
JoinWithSpace(list) ==
    IF list = <<>> THEN <<>>
    ELSE IF Len(list) = 1 THEN Head(list)
    ELSE Head(list) \o <<" ">> \o JoinWithSpace(Tail(list))

\* ''.join(list)
RECURSIVE Join(_)
Join(list) == IF list = <<>> THEN <<>> ELSE Head(list) \o Join(Tail(list))

(***************************************************************************)
(* extraer_id_base                                                         *)
(***************************************************************************)
\* a plausible slip: only one marker is removed
StripOneMarker(identificador) ==
    IF identificador # <<>> /\ identificador[1] = ">"
    THEN Tail(identificador) ELSE identificador

\* identificador.lstrip('>')
LStripMarker(identificador) == LStrip(identificador, {">"})

\* a plausible slip: \d in place of \d+
MatchOneDigit(id_limpio) ==
    LET a == SpanNotIn(id_limpio, 1, {"."})
    IN  IF a >= 1 /\ a + 2 <= Len(id_limpio) /\ id_limpio[a + 1] = "."
            /\ id_limpio[a + 2] \in Digits
        THEN <<SubSeq(id_limpio, 1, a + 2)>>
        ELSE <<>>

\* re.match(r'^([^.]+\.\d+)', id_limpio): <<>> for no match, else <<group(1)>>.
\* [^.]+ is greedy and must be followed by a dot, so it takes the whole run of
\* non-dot characters; \d+ is greedy and takes the whole run of digits.
MatchAccessionVersion(id_limpio) ==
    LET a == SpanNotIn(id_limpio, 1, {"."})
        d == SpanIn(id_limpio, a + 2, Digits)
    IN  IF a >= 1 /\ a + 1 <= Len(id_limpio) /\ id_limpio[a + 1] = "." /\ d >= 1
        THEN <<SubSeq(id_limpio, 1, a + 1 + d)>>
        ELSE <<>>

extraer_id_base(identificador) ==
    LET id_limpio == LStripMarker(identificador)
        match == MatchAccessionVersion(id_limpio)
    IN  IF match # <<>> THEN match[1] ELSE Split(id_limpio, ".")[1]


(***************************************************************************)
(* normalizar_nombre_taxonomico                                            *)
(***************************************************************************)
UpperCase == <<"A", "B", "C", "D", "E", "F", "G", "H", "I", "J", "K", "L", "M",
               "N", "O", "P", "Q", "R", "S", "T", "U", "V", "W", "X", "Y", "Z">>
LowerCase == <<"a", "b", "c", "d", "e", "f", "g", "h", "i", "j", "k", "l", "m",
               "n", "o", "p", "q", "r", "s", "t", "u", "v", "w", "x", "y", "z">>

\* str.lower()
Lower(s) ==
    [i \in 1..Len(s) |->
        IF \E j \in 1..Len(UpperCase) : UpperCase[j] = s[i]
        THEN LowerCase[CHOOSE j \in 1..Len(UpperCase) : UpperCase[j] = s[i]]
        ELSE s[i]]

\* str.replace(old, new) for one-character old and new
Replace(s, old, new) == [i \in 1..Len(s) |-> IF s[i] = old THEN new ELSE s[i]]

normalizar_nombre_taxonomico(nombre) ==
    IF nombre = <<>> THEN <<>>
    ELSE Strip(Replace(Lower(nombre), " ", "_"))

(***************************************************************************)
(* parsear_taxonomia                                                       *)
(***************************************************************************)
RankLetters == {"k", "g", "p", "c", "o", "f", "s"}

RankNames ==
    {"kingdom", "phylum", "class", "order", "family", "genus", "species"}

\* the if/elif chain of parsear_taxonomia
RankKey(prefijo) ==
    IF prefijo = "k" THEN "kingdom"
    ELSE IF prefijo = "p" THEN "phylum"
    ELSE IF prefijo = "c" THEN "class"
    ELSE IF prefijo = "o" THEN "order"
    ELSE IF prefijo = "f" THEN "family"
    ELSE IF prefijo = "g" THEN "genus"
    ELSE "species"

\* a plausible slip: the name is cut at the first '_' that a digit follows
RECURSIVE NameUpToFirstUnderscore(_, _)
NameUpToFirstUnderscore(parte, k) ==
    IF 3 + k + 2 > Len(parte) THEN 0
    ELSE IF parte[4 + k] = "_" /\ parte[5 + k] \in Digits THEN k
         ELSE NameUpToFirstUnderscore(parte, k + 1)

\* The lazy group (.+?) of the pattern: the regex engine tries a name of 1, 2,
\* ... characters and stops at the first one followed by '_' and digits only up
\* to the end of the segment.  0 when no length works.
RECURSIVE LazyNameLen(_, _)
LazyNameLen(parte, k) ==
    IF 3 + k + 2 > Len(parte) THEN 0
    ELSE IF /\ parte[4 + k] = "_"
            /\ SpanIn(parte, 5 + k, Digits) = Len(parte) - (4 + k)
         THEN k
         ELSE LazyNameLen(parte, k + 1)

\* a plausible slip: the first character is not checked against [kgpcofs]
SegmentMatchAnyLetter(parte) ==
    IF Len(parte) >= 3 /\ parte[2] = "_" /\ parte[3] = "_"
        /\ LazyNameLen(parte, 1) > 0
    THEN <<parte[1], SubSeq(parte, 4, 3 + LazyNameLen(parte, 1))>>
    ELSE <<>>

\* re.match(r'^([kgpcofs])__(.+?)_\d+$', parte): <<>> for no match, else
\* <<group(1), group(2)>>
SegmentMatch(parte) ==
    IF Len(parte) >= 3 /\ parte[1] \in RankLetters
        /\ parte[2] = "_" /\ parte[3] = "_"
        /\ LazyNameLen(parte, 1) > 0
    THEN <<parte[1], SubSeq(parte, 4, 3 + LazyNameLen(parte, 1))>>
    ELSE <<>>

\* a dict is a function on its set of keys
EmptyDict == [k \in {} |-> <<>>]

DictSet(d, key, value) ==
    [k \in DOMAIN d \cup {key} |-> IF k = key THEN value ELSE d[k]]

DictGet(d, key, default) == IF key \in DOMAIN d THEN d[key] ELSE default

\* the body of the for loop of parsear_taxonomia
ParsearParte(taxonomia, parte, norm) ==
    LET match == SegmentMatch(parte)
    IN  IF match = <<>> THEN taxonomia
        ELSE LET prefijo == match[1]
                 nombre == IF norm THEN normalizar_nombre_taxonomico(match[2])
                           ELSE match[2]
             IN  DictSet(taxonomia, RankKey(prefijo), nombre)

RECURSIVE ParsearPartes(_, _, _)
ParsearPartes(taxonomia, partes, norm) ==
    IF partes = <<>> THEN taxonomia
    ELSE ParsearPartes(ParsearParte(taxonomia, Head(partes), norm),
                       Tail(partes), norm)

parsear_taxonomia(taxonomia_str, norm) ==
    ParsearPartes(EmptyDict, Split(taxonomia_str, ";"), norm)

(***************************************************************************)
(* pandas: DataFrame(list of dicts) and merge(how='inner')                 *)
(***************************************************************************)
\* pd.DataFrame(datos): the columns are the keys of the row dicts, so a frame
\* built from an empty list has no column at all
DataFrame(rows) ==
    [columns |-> IF rows = <<>> THEN {} ELSE DOMAIN rows[1], rows |-> rows]

\* a plausible slip: a left row is joined to its first match only
RECURSIVE FirstMatchRows(_, _, _)
FirstMatchRows(left, right, on) ==
    IF left = <<>> THEN <<>>
    ELSE LET l == Head(left)
             matches == SelectSeq(right, LAMBDA r : r[on] = l[on])
         IN  (IF matches = <<>> THEN <<>> ELSE <<l @@ matches[1]>>)
                 \o FirstMatchRows(Tail(left), right, on)

\* the rows of an inner join: every pair of a left and a right row with the
\* same key, in the order of the left rows
RECURSIVE InnerRows(_, _, _)
InnerRows(left, right, on) ==
    IF left = <<>> THEN <<>>
    ELSE LET l == Head(left)
             matches == SelectSeq(right, LAMBDA r : r[on] = l[on])
         IN  [i \in 1..Len(matches) |-> l @@ matches[i]]
                 \o InnerRows(Tail(left), right, on)

\* pd.merge(left, right, on=on, how='inner'): KeyError when a frame has no
\* column named on
PdMerge(left, right, on) ==
    IF on \notin left.columns \/ on \notin right.columns
    THEN [error |-> "KeyError", frame |-> [columns |-> {}, rows |-> <<>>]]
    ELSE [error |-> "none",
          frame |-> [columns |-> left.columns \cup right.columns,
                     rows |-> InnerRows(left.rows, right.rows, on)]]

(***************************************************************************)
(* cargar_taxon                                                            *)
(***************************************************************************)
\* a plausible slip: lines with more than two fields are dropped as well
NoDosCampos(partes) == Len(partes) # 2

\* len(partes) < 2
PocosCampos(partes) == Len(partes) < 2

\* the dict appended to datos for one accepted line
FilaTaxon(partes, norm) ==
    LET id_base == extraer_id_base(partes[1])
        taxonomia == parsear_taxonomia(partes[2], norm)
    IN  [sequence_id |-> id_base,
         kingdom |-> DictGet(taxonomia, "kingdom", <<>>),
         phylum |-> DictGet(taxonomia, "phylum", <<>>),
         class |-> DictGet(taxonomia, "class", <<>>),
         order |-> DictGet(taxonomia, "order", <<>>),
         family |-> DictGet(taxonomia, "family", <<>>),
         genus |-> DictGet(taxonomia, "genus", <<>>),
         species |-> DictGet(taxonomia, "species", <<>>)]

\* one iteration of the for loop over the lines of the .taxon file
TaxonLinea ==
    /\ pc = "taxon"
    /\ n < Len(archivo_taxon)
    /\ LET linea == Strip(archivo_taxon[n + 1])
           partes == Split(linea, "\t")
       IN  datos' = IF linea = <<>> THEN datos
                    ELSE IF PocosCampos(partes) THEN datos
                    ELSE Append(datos, FilaTaxon(partes, normalizar))
    /\ n' = n + 1
    /\ UNCHANGED <<pc, arg, normalizar, built, ret, archivo_taxon,
                   archivo_fasta, id_actual, secuencia_actual, df_taxon,
                   df_fasta, df_completo, error>>

\* end of the file: return pd.DataFrame(datos); the caller goes on to the
\* .fasta file
TaxonReturn ==
    /\ pc = "taxon"
    /\ n = Len(archivo_taxon)
    /\ df_taxon' = DataFrame(datos)
    /\ pc' = "fasta"
    /\ n' = 0
    /\ datos' = <<>>
    /\ UNCHANGED <<arg, normalizar, built, ret, archivo_taxon, archivo_fasta,
                   id_actual, secuencia_actual, df_fasta, df_completo, error>>

(***************************************************************************)
(* cargar_fasta                                                            *)
(***************************************************************************)
\* linea.startswith('>')
EsEncabezado(linea) == linea # <<>> /\ linea[1] = ">"

\* a plausible slip: a block without sequence lines is not saved
GuardarSiHaySecuencia(lista, id, secuencia) ==
    IF id # <<>> /\ secuencia # <<>>
    THEN Append(lista, [sequence_id |-> id[1], dna_sequence |-> Join(secuencia)])
    ELSE lista

\* if id_actual is not None: datos.append({...})
Guardar(lista, id, secuencia) ==
    IF id # <<>>
    THEN Append(lista, [sequence_id |-> id[1], dna_sequence |-> Join(secuencia)])
    ELSE lista

\* one iteration of the for loop over the lines of the .fasta file
FastaLinea ==
    /\ pc = "fasta"
    /\ n < Len(archivo_fasta)
    /\ LET linea == Strip(archivo_fasta[n + 1])
       IN  IF EsEncabezado(linea)
           THEN /\ datos' = Guardar(datos, id_actual, secuencia_actual)
                /\ id_actual' = <<extraer_id_base(Tail(linea))>>
                /\ secuencia_actual' = <<>>
           ELSE /\ secuencia_actual' =
                      IF id_actual # <<>> THEN Append(secuencia_actual, linea)
                      ELSE secuencia_actual
                /\ UNCHANGED <<datos, id_actual>>
    /\ n' = n + 1
    /\ UNCHANGED <<pc, arg, normalizar, built, ret, archivo_taxon,
                   archivo_fasta, df_taxon, df_fasta, df_completo, error>>

\* end of the file: save the last block and return pd.DataFrame(datos)
FastaReturn ==
    /\ pc = "fasta"
    /\ n = Len(archivo_fasta)
    /\ df_fasta' = DataFrame(Guardar(datos, id_actual, secuencia_actual))
    /\ pc' = "merge"
    /\ datos' = <<>>
    /\ id_actual' = <<>>
    /\ secuencia_actual' = <<>>
    /\ UNCHANGED <<arg, normalizar, built, ret, archivo_taxon, archivo_fasta,
                   n, df_taxon, df_completo, error>>

(***************************************************************************)
(* cargar_dataset                                                          *)
(***************************************************************************)
\* df_completo = pd.merge(df_fasta, df_taxon, on='sequence_id', how='inner')
Merge ==
    /\ pc = "merge"
    /\ LET m == PdMerge(df_fasta, df_taxon, "sequence_id")
       IN  /\ df_completo' = m.frame
           /\ error' = m.error
    /\ pc' = "done"
    /\ UNCHANGED <<arg, normalizar, built, ret, archivo_taxon, archivo_fasta,
                   n, datos, id_actual, secuencia_actual, df_taxon, df_fasta>>

(***************************************************************************)
(* Values of the variables a specification does not use.                   *)
(***************************************************************************)
NoFrame == DataFrame(<<>>)

IdlePure == arg = <<>> /\ normalizar = TRUE /\ built = <<>> /\ ret = <<>>

IdleLoader ==
    /\ n = 0 /\ datos = <<>> /\ id_actual = <<>> /\ secuencia_actual = <<>>
    /\ df_taxon = NoFrame /\ df_fasta = NoFrame /\ df_completo = NoFrame
    /\ error = "none"

loaderVars == <<archivo_taxon, archivo_fasta, n, datos, id_actual,
                secuencia_actual, df_taxon, df_fasta, df_completo, error>>

(***************************************************************************)
(* Specification SpecId: extraer_id_base applied to a raw identifier, and  *)
(* then to its own result.                                                 *)
(***************************************************************************)
IdAlphabet == {">", ".", "1", "A"}

\* the identifiers of the docstring of extraer_id_base
DocIdWithMarker ==
    <<">", "M", "G", "5", "5", "9", "7", "3", "2", ".", "1", ".", "<", "1",
      ".", ">", "6", "9", "0">>
DocIdBase == <<"M", "G", "5", "5", "9", "7", "3", "2", ".", "1">>

IdInputs ==
    AllStrings(IdAlphabet, MaxIdLen)
        \cup {DocIdWithMarker, Tail(DocIdWithMarker), DocIdBase}

InitId ==
    /\ pc = "id"
    /\ arg \in IdInputs
    /\ normalizar = TRUE /\ built = <<>> /\ ret = <<>>
    /\ archivo_taxon = <<>> /\ archivo_fasta = <<>>
    /\ IdleLoader

ExtraerIdBase ==
    /\ pc = "id"
    /\ ret' = <<extraer_id_base(arg)>>
    /\ pc' = "id_once"
    /\ UNCHANGED <<arg, normalizar, built, loaderVars>>

ExtraerIdBaseAgain ==
    /\ pc = "id_once"
    /\ ret' = Append(ret, extraer_id_base(ret[1]))
    /\ pc' = "id_twice"
    /\ UNCHANGED <<arg, normalizar, built, loaderVars>>

NextId == ExtraerIdBase \/ ExtraerIdBaseAgain

SpecId == InitId /\ [][NextId]_vars

(***************************************************************************)
(* C3, C4: extraer_id_base                                                 *)
(***************************************************************************)
Range(s) == {s[i] : i \in 1..Len(s)}

\* s without its leading '>' markers
Cleaned(s) ==
    LET first == CHOOSE k \in 1..(Len(s) + 1) :
                    /\ \A i \in 1..(k - 1) : s[i] = ">"
                    /\ k <= Len(s) => s[k] # ">"
    IN  [i \in 1..(Len(s) - first + 1) |-> s[i + first - 1]]

\* p is one or more non-dot characters, a dot, one or more digits
IsAccessionVersion(p) ==
    \E a \in 1..Len(p) :
        /\ a + 2 <= Len(p)
        /\ \A i \in 1..a : p[i] # "."
        /\ p[a + 1] = "."
        /\ \A i \in (a + 2)..Len(p) : p[i] \in Digits

Prefixes(s) == {SubSeq(s, 1, k) : k \in 0..Len(s)}

\* the part of s before the first occurrence of the character ch, which occurs
BeforeFirst(s, ch) ==
    CHOOSE p \in Prefixes(s) :
        /\ ch \notin Range(p)
        /\ Len(p) < Len(s)
        /\ s[Len(p) + 1] = ch

ExpectedBaseId(s) ==
    LET c == Cleaned(s)
        P == {p \in Prefixes(c) : IsAccessionVersion(p)}
    IN  IF P # {} THEN CHOOSE p \in P : \A q \in P : Len(q) <= Len(p)
        ELSE IF "." \in Range(c)
             THEN BeforeFirst(c, ".")
             ELSE c

\* C3: extraer_id_base returns, for the identifier without its leading '>'
\* markers, the longest prefix of the form non-dots '.' digits when there is
\* one, else the part before the first dot, else the whole cleaned string; the
\* two identifiers of the docstring both give 'MG559732.1'.
C3_BaseIdShape ==
    Len(ret) >= 1 =>
        /\ ret[1] = ExpectedBaseId(arg)
        /\ arg \in {DocIdWithMarker, DocIdBase} => ret[1] = DocIdBase

C3_Witness ==
    /\ pc = "id_once"
    /\ arg = DocIdWithMarker
    /\ ret = <<DocIdBase>>

\* C4: extraer_id_base is idempotent: applied to its own result it returns
\* that result.
C4_Idempotent == pc = "id_twice" => ret[2] = ret[1]

C4_Witness ==
    /\ pc = "id_twice"
    /\ arg = <<">", ">", "A", ".", "A">>
    /\ ret = <<<<"A">>, <<"A">>>>


(***************************************************************************)
(* Specification SpecNorm: normalizar_nombre_taxonomico applied to a name. *)
(***************************************************************************)
NormAlphabet == {"A", "a", " ", "\t", "_"}

InitNorm ==
    /\ pc = "norm"
    /\ arg \in AllStrings(NormAlphabet, MaxNameLen)
    /\ normalizar = TRUE /\ built = <<>> /\ ret = <<>>
    /\ archivo_taxon = <<>> /\ archivo_fasta = <<>>
    /\ IdleLoader

NormalizarNombre ==
    /\ pc = "norm"
    /\ ret' = <<normalizar_nombre_taxonomico(arg)>>
    /\ pc' = "normalized"
    /\ UNCHANGED <<arg, normalizar, built, loaderVars>>

NextNorm == NormalizarNombre

SpecNorm == InitNorm /\ [][NextNorm]_vars

(***************************************************************************)
(* Specification SpecLineage: parsear_taxonomia applied to a lineage       *)
(* string, which is any short string or a segment built from a rank        *)
(* letter, a name and a digit string.                                      *)
(***************************************************************************)
LineageAlphabet == {"k", "_", "X", "1", ";"}

NameAlphabet == {"H", "o", "_", "5", " ", ";"}

DigitStrings == {<<"9">>, <<"1", "2">>}

\* the lineage strings of the examples
MalformedLineage ==
    <<"m", "a", "l", "f", "o", "r", "m", "e", "d", ";", ";",
      "k", "_", "_", "X", "_", "1">>
RepeatedRankLineage ==
    <<"g", "_", "_", "X", "_", "1", ";", "g", "_", "_", "H", " ", "o", "_", "2">>

LineageInputs ==
    AllStrings(LineageAlphabet, MaxLineageLen)
        \cup {MalformedLineage, RepeatedRankLineage}

BuildSegment(parts) == <<parts[1], "_", "_">> \o parts[2] \o <<"_">> \o parts[3]

InitLineage ==
    /\ pc = "parse"
    /\ normalizar \in BOOLEAN
    /\ \/ built = <<>> /\ arg \in LineageInputs
       \/ /\ built \in RankLetters \X AllStrings(NameAlphabet, MaxNameLen)
                           \X DigitStrings
          /\ arg = BuildSegment(built)
    /\ ret = <<>>
    /\ archivo_taxon = <<>> /\ archivo_fasta = <<>>
    /\ IdleLoader

ParsearTaxonomia ==
    /\ pc = "parse"
    /\ ret' = <<parsear_taxonomia(arg, normalizar)>>
    /\ pc' = "parsed"
    /\ UNCHANGED <<arg, normalizar, built, loaderVars>>

NextLineage == ParsearTaxonomia

SpecLineage == InitLineage /\ [][NextLineage]_vars

(***************************************************************************)
(* C8: parsear_taxonomia on any string                                     *)
(***************************************************************************)
\* the positions at which a ';'-separated segment of s starts
SegmentStarts(s) == {1} \cup {i + 1 : i \in {j \in 1..Len(s) : s[j] = ";"}}

\* the segment of s starting at position b
SegmentAt(s, b) ==
    LET stops == {j \in b..Len(s) : s[j] = ";"}
        e == IF stops = {} THEN Len(s)
             ELSE (CHOOSE j \in stops : \A i \in stops : j <= i) - 1
    IN  [i \in 1..(e - b + 1) |-> s[i + b - 1]]

\* the names nm for which seg is <letter>__<nm>_<digits>
NamesOf(seg) ==
    {nm \in {SubSeq(seg, 4, 3 + m) : m \in 1..(Len(seg) - 3)} :
        /\ Len(seg) >= 3 + Len(nm) + 2
        /\ seg[1] \in RankLetters /\ seg[2] = "_" /\ seg[3] = "_"
        /\ seg[4 + Len(nm)] = "_"
        /\ \A i \in (5 + Len(nm))..Len(seg) : seg[i] \in Digits}

\* C8: parsear_taxonomia returns a mapping whose keys are rank names; the key
\* of a rank is present exactly when some ';'-separated segment has the shape
\* <that rank's letter>__<name>_<digits>, so malformed segments add nothing and
\* absent ranks are absent; 'malformed;;k__X_1' gives only {kingdom: 'x'}.
C8_OnlyMatchedRanks ==
    pc = "parsed" =>
        /\ DOMAIN ret[1] \subseteq RankNames
        /\ \A letter \in RankLetters :
              RankKey(letter) \in DOMAIN ret[1]
                  <=> \E b \in SegmentStarts(arg) :
                          /\ NamesOf(SegmentAt(arg, b)) # {}
                          /\ SegmentAt(arg, b)[1] = letter
        /\ (arg = MalformedLineage /\ normalizar) =>
              (DOMAIN ret[1] = {"kingdom"} /\ ret[1]["kingdom"] = <<"x">>)

C8_Witness ==
    /\ pc = "parsed"
    /\ arg = MalformedLineage
    /\ normalizar
    /\ DOMAIN ret[1] = {"kingdom"}


(***************************************************************************)
(* C9: round trip of one built segment                                     *)
(***************************************************************************)
ExpectedName == IF normalizar THEN normalizar_nombre_taxonomico(built[2])
                ELSE built[2]

\* C9 as stated: for every rank letter, every name and every non-empty digit
\* string, parsing rank__name_digits gives a mapping whose entry for the rank
\* is the name (normalised when normalizar is set).
C9_RoundTripEveryName ==
    (pc = "parsed" /\ built # <<>>) =>
        /\ RankKey(built[1]) \in DOMAIN ret[1]
        /\ ret[1][RankKey(built[1])] = ExpectedName

\* C9 amended: the same for every non-empty name that contains no ';' (the
\* name may contain underscores and digits, and may end in '_<digits>'); the
\* mapping has no other entry.
C9_RoundTrip ==
    (pc = "parsed" /\ built # <<>> /\ built[2] # <<>>
        /\ ";" \notin Range(built[2])) =>
        /\ DOMAIN ret[1] = {RankKey(built[1])}
        /\ ret[1][RankKey(built[1])] = ExpectedName

C9_Witness ==
    /\ pc = "parsed"
    /\ built = <<"s", <<"H", "_", "5">>, <<"1", "2">>>>
    /\ ~normalizar
    /\ DOMAIN ret[1] = {"species"}
    /\ ret[1]["species"] = <<"H", "_", "5">>

(***************************************************************************)
(* C10: normalizar_nombre_taxonomico                                       *)
(***************************************************************************)
\* C10 as stated: the result is the name with leading and trailing whitespace
\* trimmed, lower-cased and with every remaining space replaced by '_', so
\* surrounding spaces do not change the result.
C10_TrimLowerUnderscore ==
    pc = "normalized" => ret[1] = Replace(Lower(Strip(arg)), " ", "_")


(***************************************************************************)
(* Specifications SpecTaxon, SpecFasta, SpecDataset: the two scanners on   *)
(* files of at most MaxLines lines, and the whole of cargar_dataset on     *)
(* files of at most MaxJoinLines lines.                                    *)
(***************************************************************************)
Files(lines, max) == UNION {[1..k -> lines] : k \in 0..max}

\* a well-formed line; empty lineage field; empty identifier field; blank;
\* whitespace only; one field; three fields; surrounding spaces
TaxonLines ==
    {<<"A", ".", "1", "\t", "k", "_", "_", "X", "_", "1">>,
     <<"A", ".", "1", "\t">>,
     <<"\t", "k", "_", "_", "X", "_", "1">>,
     <<>>,
     <<" ">>,
     <<"A", ".", "1">>,
     <<"A", ".", "1", "\t", "\t", "z">>,
     <<" ", "B", "\t", "q", " ">>}

\* a header; an indented header; sequence lines without, with inner and with
\* surrounding whitespace; blank
FastaLines ==
    {<<">", "A", ".", "1">>,
     <<" ", ">", "B">>,
     <<"A", "C">>,
     <<"G", " ", "T">>,
     <<" ", "C", " ">>,
     <<>>}

\* two lines of identifier X.1, one of Y, one without lineage field
JoinTaxonLines ==
    {<<"X", ".", "1", ".", "2", "\t", "k", "_", "_", "A", "_", "1">>,
     <<"X", ".", "1", "\t", "k", "_", "_", "B", "_", "2">>,
     <<"Y", "\t", "k", "_", "_", "A", "_", "1">>,
     <<"Y">>}

\* two headers of identifier X.1, a sequence line, a header of Z
JoinFastaLines ==
    {<<">", "X", ".", "1">>,
     <<">", "X", ".", "1", ".", "<", "1">>,
     <<"A", "C">>,
     <<">", "Z">>}

InitLoader ==
    /\ IdlePure
    /\ IdleLoader

InitTaxon ==
    /\ pc = "taxon"
    /\ archivo_taxon \in Files(TaxonLines, MaxLines)
    /\ archivo_fasta = <<>>
    /\ arg = <<>> /\ normalizar \in BOOLEAN /\ built = <<>> /\ ret = <<>>
    /\ IdleLoader

NextTaxon == TaxonLinea \/ TaxonReturn

SpecTaxon == InitTaxon /\ [][NextTaxon]_vars

InitFasta ==
    /\ pc = "fasta"
    /\ archivo_taxon = <<>>
    /\ archivo_fasta \in Files(FastaLines, MaxLines)
    /\ InitLoader

NextFasta == FastaLinea \/ FastaReturn

SpecFasta == InitFasta /\ [][NextFasta]_vars

InitDataset ==
    /\ pc = "taxon"
    /\ archivo_taxon \in Files(JoinTaxonLines, MaxJoinLines)
    /\ archivo_fasta \in Files(JoinFastaLines, MaxJoinLines)
    /\ InitLoader

NextDataset == TaxonLinea \/ TaxonReturn \/ FastaLinea \/ FastaReturn \/ Merge

SpecDataset == InitDataset /\ [][NextDataset]_vars

Init == InitDataset

Next == NextDataset

Spec == SpecDataset


(***************************************************************************)
(* Lines and blocks of a file, as the claims speak of them                 *)
(***************************************************************************)
\* s without its leading and trailing whitespace
Trim(s) ==
    LET inked == {i \in 1..Len(s) : s[i] \notin Whitespace}
    IN  IF inked = {} THEN <<>>
        ELSE LET lo == CHOOSE i \in inked : \A j \in inked : i <= j
                 hi == CHOOSE i \in inked : \A j \in inked : j <= i
             IN  [i \in 1..(hi - lo + 1) |-> s[i + lo - 1]]

\* the j-th smallest element of a set of numbers
Nth(S, j) == CHOOSE i \in S : Cardinality({x \in S : x <= i}) = j

\* the line begins with the marker
RawHeader(line) == line # <<>> /\ line[1] = ">"

\* the line begins with the marker once its surrounding whitespace is trimmed
TrimmedHeader(line) == RawHeader(Trim(line))

\* the positions of the header lines among the first k lines of a file
HeadersIn(file, k) == {i \in 1..k : TrimmedHeader(file[i])}

\* the concatenation of the trimmed lines lo..hi of a file
RECURSIVE TrimmedLines(_, _, _)
TrimmedLines(file, lo, hi) ==
    IF lo > hi THEN <<>>
    ELSE Trim(file[lo]) \o TrimmedLines(file, lo + 1, hi)

\* the last line of the block that the header at line h opens
BlockEnd(file, h) ==
    LET later == {i \in HeadersIn(file, Len(file)) : i > h}
    IN  IF later = {} THEN Len(file)
        ELSE (CHOOSE i \in later : \A j \in later : i <= j) - 1

(***************************************************************************)
(* C5, C6: cargar_fasta                                                    *)
(***************************************************************************)
\* C5 as stated: one record per line that begins with '>'.
C5_OneRecordPerRawHeader ==
    pc = "merge" =>
        Len(df_fasta.rows)
            = Cardinality({i \in 1..Len(archivo_fasta) :
                              RawHeader(archivo_fasta[i])})

\* C5 amended: a header is a line that begins with '>' once its surrounding
\* whitespace is trimmed.  While the file is read the output holds one record
\* per header seen except the last one (a record is appended only when the next
\* header or the end of input is reached); at the end there is exactly one
\* record per header, in file order; a header directly followed by a header or
\* by the end of input gives an empty dna_sequence.
C5_OneRecordPerHeader ==
    LET H == HeadersIn(archivo_fasta, Len(archivo_fasta))
    IN  /\ (pc = "fasta" /\ HeadersIn(archivo_fasta, n) = {}) => datos = <<>>
        /\ (pc = "fasta" /\ HeadersIn(archivo_fasta, n) # {}) =>
              Len(datos) = Cardinality(HeadersIn(archivo_fasta, n)) - 1
        /\ pc = "merge" =>
              /\ Len(df_fasta.rows) = Cardinality(H)
              /\ \A j \in 1..Cardinality(H) :
                    /\ df_fasta.rows[j].sequence_id
                         = ExpectedBaseId(Tail(Trim(archivo_fasta[Nth(H, j)])))
                    /\ BlockEnd(archivo_fasta, Nth(H, j)) = Nth(H, j) =>
                          df_fasta.rows[j].dna_sequence = <<>>

\* a trailing header without sequence lines, after lines that precede the
\* first header
C5_Witness ==
    /\ pc = "merge"
    /\ archivo_fasta = <<<<"A", "C">>, <<">", "A", ".", "1">>, <<" ", ">", "B">>>>
    /\ Len(df_fasta.rows) = 2
    /\ df_fasta.rows[2] = [sequence_id |-> <<"B">>, dna_sequence |-> <<>>]

\* the concatenation part of C6, which both forms of the claim share
BlockConcatenation ==
    LET H == HeadersIn(archivo_fasta, Len(archivo_fasta))
    IN  \A j \in 1..Len(df_fasta.rows) :
            /\ j <= Cardinality(H)
            /\ df_fasta.rows[j].dna_sequence
                 = TrimmedLines(archivo_fasta, Nth(H, j) + 1,
                                BlockEnd(archivo_fasta, Nth(H, j)))

\* C6 as stated: every dna_sequence is the concatenation of the lines of its
\* block and contains no whitespace.
C6_NoEmbeddedWhitespace ==
    pc = "merge" =>
        /\ BlockConcatenation
        /\ \A j \in 1..Len(df_fasta.rows) :
              Range(df_fasta.rows[j].dna_sequence) \cap Whitespace = {}

\* C6 amended: every dna_sequence is the concatenation, in file order and with
\* no separator, of the lines between its header and the next header (or the
\* end of input), each trimmed of its leading and trailing whitespace only;
\* it contains whitespace exactly when one of those lines has whitespace
\* inside.
C6_ConcatenationOfTrimmedLines ==
    pc = "merge" =>
        /\ BlockConcatenation
        /\ LET H == HeadersIn(archivo_fasta, Len(archivo_fasta))
           IN  \A j \in 1..Len(df_fasta.rows) :
                  (Range(df_fasta.rows[j].dna_sequence) \cap Whitespace # {})
                      <=> \E i \in (Nth(H, j) + 1)..BlockEnd(archivo_fasta, Nth(H, j)) :
                              Range(Trim(archivo_fasta[i])) \cap Whitespace # {}

C6_Witness ==
    /\ pc = "merge"
    /\ archivo_fasta = <<<<">", "A", ".", "1">>, <<"G", " ", "T">>, <<" ", "C", " ">>>>
    /\ df_fasta.rows
         = <<[sequence_id |-> <<"A", ".", "1">>,
              dna_sequence |-> <<"G", " ", "T", "C">>]>>

(***************************************************************************)
(* C7: cargar_taxon                                                        *)
(***************************************************************************)
\* the line, trimmed of its surrounding whitespace, still has a tab
Survives(line) == "\t" \in Range(Trim(line))

\* C7 as stated: one record for every non-blank line with at least two
\* tab-separated fields, an empty identifier or lineage field included.
C7_OneRecordPerTwoFieldLine ==
    (pc # "taxon") =>
        Len(df_taxon.rows)
            = Cardinality({i \in 1..Len(archivo_taxon) :
                              /\ Trim(archivo_taxon[i]) # <<>>
                              /\ "\t" \in Range(archivo_taxon[i])})

\* C7 amended: one record for every line that, once trimmed of its leading and
\* trailing whitespace (tabs included), is non-empty and has at least two
\* tab-separated fields, and none for any other line: a line whose identifier
\* field is empty, or whose fields after the first are all empty, loses its tab
\* to the trimming and is skipped.  The output order is the input line order
\* and rows with a duplicate sequence_id are all kept.
C7_OneRecordPerSurvivingLine ==
    LET kept == SelectSeq(archivo_taxon, Survives)
    IN  /\ pc = "taxon" =>
              Len(datos) = Len(SelectSeq(SubSeq(archivo_taxon, 1, n), Survives))
        /\ (pc # "taxon") =>
              /\ Len(df_taxon.rows) = Len(kept)
              /\ \A i \in 1..Len(kept) :
                    df_taxon.rows[i].sequence_id
                        = ExpectedBaseId(BeforeFirst(Trim(kept[i]), "\t"))

\* two kept lines of the same identifier around a skipped line with a tab
C7_Witness ==
    /\ pc = "fasta"
    /\ archivo_taxon
         = <<<<"A", ".", "1", "\t", "k", "_", "_", "X", "_", "1">>,
             <<"A", ".", "1", "\t">>,
             <<"A", ".", "1", "\t", "\t", "z">>>>
    /\ Len(df_taxon.rows) = 2
    /\ df_taxon.rows[1].sequence_id = df_taxon.rows[2].sequence_id

(***************************************************************************)
(* C1, C2: cargar_dataset                                                  *)
(***************************************************************************)
Count(rows, k) == Cardinality({i \in 1..Len(rows) : rows[i].sequence_id = k})

Keys(rows) == {rows[i].sequence_id : i \in 1..Len(rows)}

\* C1: the joined table has, for every identifier, as many records as the
\* number of sequence rows of that identifier times the number of lineage rows
\* of that identifier (so none for an identifier of one table only), each the
\* combination of a sequence row and a lineage row of that identifier.
C1_JoinFanOut ==
    pc = "done" =>
        /\ \A k \in Keys(df_fasta.rows) \cup Keys(df_taxon.rows)
                    \cup Keys(df_completo.rows) :
              Count(df_completo.rows, k)
                  = Count(df_fasta.rows, k) * Count(df_taxon.rows, k)
        /\ \A i \in 1..Len(df_completo.rows) :
              \E f \in 1..Len(df_fasta.rows), t \in 1..Len(df_taxon.rows) :
                  /\ df_fasta.rows[f].sequence_id = df_taxon.rows[t].sequence_id
                  /\ df_completo.rows[i] = df_fasta.rows[f] @@ df_taxon.rows[t]

\* one sequence row joined against two lineage rows of its identifier
C1_Witness ==
    /\ pc = "done"
    /\ Len(df_fasta.rows) = 1
    /\ Len(df_taxon.rows) = 2
    /\ Count(df_taxon.rows, df_fasta.rows[1].sequence_id) = 2
    /\ Len(df_completo.rows) = 2
    /\ df_completo.rows[1].kingdom # df_completo.rows[2].kingdom

\* C2: cargar_dataset never fails on two readable files.
C2_NeverFails == pc = "done" => error = "none"


(***************************************************************************)
(* calcular_estadisticas (src/eda.py) and its caller ejecutar_eda          *)
(*                                                                         *)
(* A float is kept exact: <<"nan">>, <<"int", v>>, <<"ratio", num, den>>   *)
(* for num/den, <<"sqrt", num, den>> for the square root of num/den.       *)
(***************************************************************************)
NaN == <<"nan">>

\* Series.str.len()
Longitudes(rows) == [i \in 1..Len(rows) |-> Len(rows[i].dna_sequence)]

\* Series.nunique()
NUnique(rows, column) == Cardinality({rows[i][column] : i \in 1..Len(rows)})

RECURSIVE Sum(_)
Sum(xs) == IF xs = <<>> THEN 0 ELSE Head(xs) + Sum(Tail(xs))

Squares(xs) == [i \in 1..Len(xs) |-> xs[i] * xs[i]]

\* the k-th smallest element of a non-empty list of numbers
KthSmallest(xs, k) ==
    CHOOSE v \in {xs[i] : i \in 1..Len(xs)} :
        /\ Cardinality({i \in 1..Len(xs) : xs[i] < v}) < k
        /\ k <= Cardinality({i \in 1..Len(xs) : xs[i] <= v})

\* Series.mean(): NaN for an empty series
Mean(xs) == IF xs = <<>> THEN NaN ELSE <<"ratio", Sum(xs), Len(xs)>>

\* Series.median(): NaN for an empty series
Median(xs) ==
    IF xs = <<>> THEN NaN
    ELSE <<"ratio",
           KthSmallest(xs, (Len(xs) + 1) \div 2)
               + KthSmallest(xs, (Len(xs) + 2) \div 2),
           2>>

\* Series.min(): NaN for an empty series
Min(xs) == IF xs = <<>> THEN NaN ELSE <<"int", KthSmallest(xs, 1)>>

\* Series.max(): NaN for an empty series
Max(xs) == IF xs = <<>> THEN NaN ELSE <<"int", KthSmallest(xs, Len(xs))>>

\* Series.std(), with ddof = 1: NaN for fewer than two values
Std(xs) ==
    IF Len(xs) < 2 THEN NaN
    ELSE <<"sqrt", Len(xs) * Sum(Squares(xs)) - Sum(xs) * Sum(xs),
           Len(xs) * (Len(xs) - 1)>>

\* df[column] raises KeyError when the frame has no such column, as a frame
\* built from an empty list has none
calcular_estadisticas(df) ==
    IF    {"dna_sequence", "sequence_id"} \cup RankNames \subseteq df.columns
    THEN  LET longitudes == Longitudes(df.rows)
          IN  [error |-> "none",
               stats |->
                 [total_registros |-> Len(df.rows),
                  secuencias_unicas |-> NUnique(df.rows, "sequence_id"),
                  especies_unicas |-> NUnique(df.rows, "species"),
                  generos_unicos |-> NUnique(df.rows, "genus"),
                  familias_unicas |-> NUnique(df.rows, "family"),
                  ordenes_unicos |-> NUnique(df.rows, "order"),
                  clases_unicas |-> NUnique(df.rows, "class"),
                  filos_unicos |-> NUnique(df.rows, "phylum"),
                  reinos_unicos |-> NUnique(df.rows, "kingdom"),
                  longitud_promedio |-> Mean(longitudes),
                  longitud_mediana |-> Median(longitudes),
                  longitud_min |-> Min(longitudes),
                  longitud_max |-> Max(longitudes),
                  longitud_std |-> Std(longitudes)]]
    ELSE  [error |-> "KeyError", stats |-> <<>>]

\* ejecutar_eda: stats = calcular_estadisticas(df), reached only when
\* cargar_dataset returned; an exception of cargar_dataset ends the run
CalcularEstadisticas ==
    /\ pc = "done"
    /\ error = "none"
    /\ LET r == calcular_estadisticas(df_completo)
       IN  /\ ret' = IF r.error = "none" THEN <<r.stats>> ELSE ret
           /\ error' = r.error
    /\ pc' = "stats"
    /\ UNCHANGED <<arg, normalizar, built, archivo_taxon, archivo_fasta, n,
                   datos, id_actual, secuencia_actual, df_taxon, df_fasta,
                   df_completo>>

InitEda == InitDataset

NextEda == NextDataset \/ CalcularEstadisticas

SpecEda == InitEda /\ [][NextEda]_vars

(***************************************************************************)
(* C11: calcular_estadisticas on an empty joined collection                *)
(***************************************************************************)
\* the two tables share no identifier
NoSharedId == Keys(df_fasta.rows) \cap Keys(df_taxon.rows) = {}

\* the summary of an empty collection: zero counts, NaN length statistics
EmptySummary(stats) ==
    /\ stats.total_registros = 0
    /\ stats.secuencias_unicas = 0
    /\ \A c \in {"especies_unicas", "generos_unicos", "familias_unicas",
                 "ordenes_unicos", "clases_unicas", "filos_unicos",
                 "reinos_unicos"} : stats[c] = 0
    /\ \A c \in {"longitud_promedio", "longitud_mediana", "longitud_min",
                 "longitud_max", "longitud_std"} : stats[c] = NaN

\* C11: when the two tables share no identifier (disjoint identifiers, or a
\* source file that yields no records), nothing raises and the summary has
\* zero counts and a not-a-number marker for the five length statistics.
C11_EmptySummaryNeverRaises ==
    (pc \in {"done", "stats"} /\ NoSharedId) =>
        /\ error = "none"
        /\ pc = "stats" => (Len(ret) = 1 /\ EmptySummary(ret[1]))

\* the part of C11 that the code meets: two non-empty tables without a shared
\* identifier give the all-zero, all-NaN summary
EmptySummaryOfDisjointTables ==
    (pc = "stats" /\ NoSharedId) =>
        (error = "none" /\ Len(ret) = 1 /\ EmptySummary(ret[1]))

DisjointTablesSummarised ==
    /\ pc = "stats"
    /\ NoSharedId
    /\ df_fasta.rows # <<>>
    /\ df_taxon.rows # <<>>

=============================================================================
